---- MODULE Spec2Model ----
(***************************************************************************)
(* Model of django-package-monitor: the refresh_packages management        *)
(* command (clean / local / remote) and the PackageVersion admin           *)
(* (check_pypi action, "Update available" filter and column).              *)
(*                                                                         *)
(* The PackageVersion model and the pypi client live in modules that are   *)
(* not part of the analysed sources; their behaviour (record creation, the *)
(* unique package_name constraint, update_from_pypi, version comparison)   *)
(* is taken from the specification, sections 3, 4.1, 4.3, 4.4 and 6.        *)
(***************************************************************************)
EXTENDS Integers, Sequences, FiniteSets, TLC

\* ---------------------------------------------------------------- bounds
MaxLen == 2          \* longest requirements manifest
MaxClock == 1        \* last clock reading the model distinguishes

\* ------------------------------------------------------------ value sets
Names == {"a", "b"}
NameOrder == <<"a", "b">>      \* ordering = ["package_name"]
NoVersion == <<>>              \* a null version field
NoTime == -1                   \* a null timestamp
Pinned == {<<1, 0, 0>>}
Published == { {<<1, 0, 0>>},
               {<<1, 0, 0>>, <<1, 0, 1>>},
               {<<1, 0, 0>>, <<1, 1, 0>>, <<2, 0, 0>>} }
Statuses == {"unknown", "up-to-date", "patch", "minor", "major"}
Responses == {[ok |-> FALSE, versions |-> {}]}
             \cup {[ok |-> TRUE, versions |-> S] : S \in Published}
Requirements == {[name |-> n, uri |-> "", version |-> NoVersion, editable |-> TRUE] : n \in Names}
                \cup {[name |-> n, uri |-> "", version |-> v, editable |-> FALSE] :
                         n \in Names, v \in Pinned \cup {NoVersion}}
RECURSIVE SeqsUpTo(_)
SeqsUpTo(k) == IF k = 0 THEN {<<>>}
               ELSE LET S == SeqsUpTo(k - 1)
                    IN S \cup {Append(s, r) : s \in {x \in S : Len(x) = k - 1}, r \in Requirements}
Manifests == SeqsUpTo(MaxLen)
Options == [clean : BOOLEAN, local : BOOLEAN, remote : BOOLEAN]

VARIABLES store,      \* the package_monitor_packageversion table, in insertion order
          now,        \* the clock read by tz_now()
          pc,         \* position of the running command inside Command.handle
          opts,       \* options of the running command
          reqs,       \* requirements local() has still to process
          pending,    \* requirement whose creation failed and awaits the lookup by name
          requested,  \* the names the manifest read by local() asks for, in order
          packages,   \* the list local() builds and handle passes to remote()
          lastOp,     \* the operation that ran last
          lastIdx,    \* index responses served to the last remote() run
          results,    \* what the last remote() returned
          queried,    \* update_from_pypi calls of the last remote()/check_pypi, in order
          errors,     \* logger.error calls of the last operation
          raised,     \* the last operation ended with an uncaught exception
          listing     \* what the last admin view displayed

vars == <<store, now, pc, opts, reqs, pending, requested, packages, lastOp, lastIdx,
          results, queried, errors, raised, listing>>

\* ------------------------------------------------------- version model
Less(a, b) == \/ a[1] < b[1]
              \/ a[1] = b[1] /\ a[2] < b[2]
              \/ a[1] = b[1] /\ a[2] = b[2] /\ a[3] < b[3]

latest_version(S) == IF S = {} THEN NoVersion
                     ELSE CHOOSE v \in S : \A w \in S : ~Less(v, w)

next_version(S, current) ==
    IF current = NoVersion THEN NoVersion
    ELSE LET G == {v \in S : Less(current, v)}
         IN IF G = {} THEN NoVersion
            ELSE CHOOSE v \in G : \A w \in G : ~Less(w, v)

classify(current, latest, is_editable) ==
    IF is_editable THEN "unknown"
    ELSE IF latest = NoVersion THEN "unknown"
    ELSE IF current = NoVersion THEN "unknown"
    ELSE IF current = latest THEN "up-to-date"
    ELSE IF current[1] # latest[1] THEN "major"
    ELSE IF current[2] # latest[2] THEN "minor"
    ELSE "patch"

\* ------------------------------------------------------- record store
PackageVersion(requirement) ==
    [package_name |-> requirement.name,
     is_editable |-> requirement.editable,
     current_version |-> IF requirement.editable THEN NoVersion ELSE requirement.version,
     latest_version |-> NoVersion,
     next_version |-> NoVersion,
     diff_status |-> "unknown",
     checked_pypi_at |-> NoTime]

Exists(st, name) == \E i \in 1..Len(st) : st[i].package_name = name

get(st, name) == SelectSeq(st, LAMBDA row : row.package_name = name)

\* Model.save() of an object that is already stored: UPDATE by key, INSERT
\* when the row has gone.
save(st, pv) ==
    IF Exists(st, pv.package_name)
    THEN [i \in 1..Len(st) |-> IF st[i].package_name = pv.package_name THEN pv ELSE st[i]]
    ELSE Append(st, pv)

update_from_pypi(pv, response, t) ==
    IF ~response.ok THEN [ok |-> FALSE, pv |-> pv]
    ELSE LET latest == latest_version(response.versions)
         IN [ok |-> TRUE,
             pv |-> [pv EXCEPT !.latest_version = latest,
                               !.next_version = next_version(response.versions, pv.current_version),
                               !.diff_status = classify(pv.current_version, latest, pv.is_editable),
                               !.checked_pypi_at = t]]

\* ------------------------------------------------- refresh_packages.py
\* Variant: the IntegrityError of a duplicate name is not caught.
create_package_version_noexcept(st, requirement) ==
    IF Exists(st, requirement.name)
    THEN [store |-> st, pv |-> <<>>, raised |-> TRUE]
    ELSE LET pv == PackageVersion(requirement)
         IN [store |-> Append(st, pv), pv |-> <<pv>>, raised |-> FALSE]

\* Variant: a duplicate name refreshes the stored current_version from the manifest.
create_package_version_overwrite(st, requirement) ==
    IF Exists(st, requirement.name)
    THEN [store |-> [i \in 1..Len(st) |->
                       IF st[i].package_name = requirement.name
                       THEN [st[i] EXCEPT !.current_version =
                                 PackageVersion(requirement).current_version]
                       ELSE st[i]],
          pv |-> <<>>, raised |-> FALSE]
    ELSE LET pv == PackageVersion(requirement)
         IN [store |-> Append(st, pv), pv |-> <<pv>>, raised |-> FALSE]

\* pv is <<record>> for a created record and <<>> for Python's None.
create_package_version(st, requirement) ==
    IF Exists(st, requirement.name)
    THEN [store |-> st, pv |-> <<>>, raised |-> FALSE]          \* IntegrityError, logged
    ELSE LET pv == PackageVersion(requirement)
         IN [store |-> Append(st, pv), pv |-> <<pv>>, raised |-> FALSE]

lookup_name(r) == IF r.name # "" THEN r.name ELSE r.uri

\* Variant: a record that has gone is created again instead of being skipped.
local_lookup_recreate(acc, r) ==
    LET found == get(acc.store, lookup_name(r))
    IN IF found = <<>>
       THEN [acc EXCEPT !.store = Append(@, PackageVersion(r)),
                        !.packages = Append(@, PackageVersion(r))]
       ELSE [acc EXCEPT !.packages = Append(@, found[1])]

\* Lines 39-45 of local(): the record was not created, fetch it by name.
local_lookup(acc, r) ==
    LET found == get(acc.store, lookup_name(r))
    IN IF found = <<>>
       THEN [acc EXCEPT !.errors = Append(@, lookup_name(r))]    \* DoesNotExist: skip
       ELSE [acc EXCEPT !.packages = Append(@, found[1])]

\* One iteration of the for loop of local().
local_iteration(acc, r) ==
    LET c == create_package_version(acc.store, r)
    IN IF c.raised THEN [acc EXCEPT !.raised = TRUE]
       ELSE IF c.pv # <<>>
            THEN [acc EXCEPT !.store = c.store, !.packages = Append(@, c.pv[1])]
            ELSE local_lookup([acc EXCEPT !.store = c.store], r)

RECURSIVE local_loop(_, _)
local_loop(acc, requirements) ==
    IF requirements = <<>> \/ acc.raised THEN acc
    ELSE local_loop(local_iteration(acc, Head(requirements)), Tail(requirements))

local(st, requirements) ==
    local_loop([store |-> st, packages |-> <<>>, errors |-> <<>>, raised |-> FALSE],
               requirements)

NoGroups == [s \in Statuses |-> <<>>]
NoResults == [groups |-> NoGroups, refreshed_at |-> NoTime]

\* The records remote() iterates over (lines 54-55).
remote_packages(st, pkgs) ==
    IF pkgs = <<>> THEN SelectSeq(st, LAMBDA row : ~row.is_editable) ELSE pkgs

\* The names remote() will ask the index about.
ToQuery(pkgs) == {pkgs[i].package_name : i \in {j \in 1..Len(pkgs) : ~pkgs[j].is_editable}}

\* Variant: editable packages are not skipped (the index knows them too).
remote_iteration_noskip(acc, pv, idx, t) ==
    LET answer == IF pv.package_name \in DOMAIN idx THEN idx[pv.package_name]
                  ELSE [ok |-> TRUE, versions |-> {<<1, 0, 0>>}]
        u == update_from_pypi(pv, answer, t)
        q == [acc EXCEPT !.queried = Append(@, pv.package_name)]
    IN IF u.ok
       THEN [q EXCEPT !.store = save(acc.store, u.pv),
                      !.groups[u.pv.diff_status] = Append(@, pv.package_name)]
       ELSE [q EXCEPT !.errors = Append(@, pv.package_name)]

\* Variant: the record is added to the report before the index is asked.
remote_iteration_early_append(acc, pv, idx, t) ==
    IF pv.is_editable THEN acc
    ELSE LET u == update_from_pypi(pv, idx[pv.package_name], t)
             q == [acc EXCEPT !.queried = Append(@, pv.package_name),
                              !.groups[pv.diff_status] = Append(@, pv.package_name)]
         IN IF u.ok
            THEN [q EXCEPT !.store = save(acc.store, u.pv)]
            ELSE [q EXCEPT !.errors = Append(@, pv.package_name)]

\* Variant: a record whose query fails is added to the report as well.
remote_iteration_report_failed(acc, pv, idx, t) ==
    IF pv.is_editable THEN acc
    ELSE LET u == update_from_pypi(pv, idx[pv.package_name], t)
             q == [acc EXCEPT !.queried = Append(@, pv.package_name),
                              !.groups[u.pv.diff_status] = Append(@, pv.package_name)]
         IN IF u.ok
            THEN [q EXCEPT !.store = save(acc.store, u.pv)]
            ELSE [q EXCEPT !.errors = Append(@, pv.package_name)]

\* Lines 57-65: the body of the for loop of remote().
remote_iteration(acc, pv, idx, t) ==
    IF pv.is_editable THEN acc
    ELSE LET u == update_from_pypi(pv, idx[pv.package_name], t)
             q == [acc EXCEPT !.queried = Append(@, pv.package_name)]
         IN IF u.ok
            THEN [q EXCEPT !.store = save(acc.store, u.pv),
                           !.groups[u.pv.diff_status] = Append(@, pv.package_name)]
            ELSE [q EXCEPT !.errors = Append(@, pv.package_name)]

\* Variant: no try/except around update_from_pypi, the first failure ends the loop.
RECURSIVE remote_loop_noexcept(_, _, _, _)
remote_loop_noexcept(acc, pkgs, idx, t) ==
    IF pkgs = <<>> THEN acc
    ELSE IF ~Head(pkgs).is_editable /\ ~idx[Head(pkgs).package_name].ok
         THEN [acc EXCEPT !.queried = Append(@, Head(pkgs).package_name)]
         ELSE remote_loop_noexcept(remote_iteration(acc, Head(pkgs), idx, t), Tail(pkgs), idx, t)

RECURSIVE remote_loop(_, _, _, _)
remote_loop(acc, pkgs, idx, t) ==
    IF pkgs = <<>> THEN acc
    ELSE remote_loop(remote_iteration(acc, Head(pkgs), idx, t), Tail(pkgs), idx, t)

remote(st, pkgs, idx, t) ==
    LET acc == remote_loop([store |-> st, groups |-> NoGroups, queried |-> <<>>,
                            errors |-> <<>>],
                           remote_packages(st, pkgs), idx, t)
    IN [store |-> acc.store,
        results |-> [groups |-> acc.groups, refreshed_at |-> t],
        queried |-> acc.queried,
        errors |-> acc.errors]

clean(st) == <<>>

\* --------------------------------------------------------------- admin.py
\* The selected rows in the admin's ordering.
selected(st, sel) ==
    LET F[i \in 0..Len(NameOrder)] ==
          IF i = 0 THEN <<>>
          ELSE IF NameOrder[i] \in sel THEN F[i - 1] \o get(st, NameOrder[i]) ELSE F[i - 1]
    IN F[Len(NameOrder)]

\* Variant: the action does not skip editable packages.
RECURSIVE check_pypi_loop_noskip(_, _, _, _)
check_pypi_loop_noskip(acc, qs, idx, t) ==
    IF qs = <<>> \/ acc.raised THEN acc
    ELSE LET p == Head(qs)
             answer == IF p.package_name \in DOMAIN idx THEN idx[p.package_name]
                       ELSE [ok |-> TRUE, versions |-> {<<1, 0, 0>>}]
             u == update_from_pypi(p, answer, t)
             q == [acc EXCEPT !.queried = Append(@, p.package_name)]
         IN IF u.ok
            THEN check_pypi_loop_noskip([q EXCEPT !.store = save(acc.store, u.pv)],
                                        Tail(qs), idx, t)
            ELSE [q EXCEPT !.raised = TRUE]

RECURSIVE check_pypi_loop(_, _, _, _)
check_pypi_loop(acc, qs, idx, t) ==
    IF qs = <<>> \/ acc.raised THEN acc
    ELSE LET p == Head(qs)
         IN IF p.is_editable THEN check_pypi_loop(acc, Tail(qs), idx, t)
            ELSE LET u == update_from_pypi(p, idx[p.package_name], t)
                     q == [acc EXCEPT !.queried = Append(@, p.package_name)]
                 IN IF u.ok
                    THEN check_pypi_loop([q EXCEPT !.store = save(acc.store, u.pv)],
                                         Tail(qs), idx, t)
                    ELSE [q EXCEPT !.raised = TRUE]

check_pypi(st, qs, idx, t) ==
    check_pypi_loop([store |-> st, queried |-> <<>>, raised |-> FALSE], qs, idx, t)

\* UpdateAvailableListFilter.queryset
queryset(value, qs) ==
    IF value = "-1" THEN SelectSeq(qs, LAMBDA r : r.latest_version = NoVersion)
    ELSE IF value = "0"
         THEN SelectSeq(qs, LAMBDA r : /\ r.current_version # NoVersion
                                       /\ r.latest_version # NoVersion
                                       /\ r.latest_version = r.current_version)
    ELSE IF value = "1"
         THEN SelectSeq(qs, LAMBDA r : /\ r.current_version # NoVersion
                                       /\ r.latest_version # NoVersion
                                       /\ ~(r.latest_version = r.current_version))
    ELSE qs

\* PackageVersionAdmin._updateable
updateable(obj) ==
    IF obj.latest_version = NoVersion \/ obj.is_editable THEN "None"
    ELSE IF obj.latest_version # obj.current_version THEN "True" ELSE "False"

\* PackageVersionAdmin.available_updates
available_updates(obj, response) ==
    {v \in response.versions : obj.current_version # NoVersion /\ Less(obj.current_version, v)}

\* ---------------------------------------------------------------- state
NoOptions == [clean |-> FALSE, local |-> FALSE, remote |-> FALSE]

Init == /\ store = <<>>
        /\ now = 0
        /\ pc = "idle"
        /\ opts = NoOptions
        /\ reqs = <<>>
        /\ pending = <<>>
        /\ requested = <<>>
        /\ packages = <<>>
        /\ lastOp = "none"
        /\ lastIdx = <<>>
        /\ results = NoResults
        /\ queried = <<>>
        /\ errors = <<>>
        /\ raised = FALSE
        /\ listing = {}

\* The stage Command.handle runs after the given one (lines 122-131).
Stage(o, after) ==
    IF after = "start" /\ o.clean THEN "clean"
    ELSE IF after \in {"start", "clean"} /\ o.local THEN "local"
    ELSE IF after \in {"start", "clean", "local"} /\ o.remote THEN "remote"
    ELSE "exit"

\* Time passes between two requests.
Tick ==
    /\ pc = "idle"
    /\ now < MaxClock
    /\ now' = now + 1
    /\ UNCHANGED <<store, pc, opts, reqs, pending, requested, packages, lastOp, lastIdx,
                   results, queried, errors, raised, listing>>

\* manage.py refresh_packages [--clean] [--local] [--remote]
HandleStart(o) ==
    /\ pc = "idle"
    /\ opts' = o
    /\ packages' = <<>>
    /\ pc' = Stage(o, "start")
    /\ UNCHANGED <<store, now, reqs, pending, requested, lastOp, lastIdx, results, queried,
                   errors, raised, listing>>

Clean ==
    /\ pc = "clean"
    /\ store' = clean(store)
    /\ pc' = Stage(opts, "clean")
    /\ lastOp' = "clean"
    /\ UNCHANGED <<now, opts, reqs, pending, requested, packages, lastIdx, results, queried,
                   errors, raised, listing>>

Local(requirements) ==
    /\ pc = "local"
    /\ LET r == local(store, requirements)
       IN /\ store' = r.store
          /\ packages' = r.packages
          /\ errors' = r.errors
          /\ raised' = r.raised
          /\ pc' = IF r.raised THEN "exit" ELSE Stage(opts, "local")
    /\ requested' = [i \in 1..Len(requirements) |-> lookup_name(requirements[i])]
    /\ lastOp' = "local"
    /\ UNCHANGED <<now, opts, reqs, pending, lastIdx, results, queried, listing>>

Remote(idx) ==
    /\ pc = "remote"
    /\ LET r == remote(store, packages, idx, now)
       IN /\ store' = r.store
          /\ results' = r.results
          /\ queried' = r.queried
          /\ errors' = r.errors
    /\ pc' = "exit"
    /\ lastOp' = "remote"
    /\ lastIdx' = idx
    /\ UNCHANGED <<now, opts, reqs, pending, requested, packages, raised, listing>>

\* The admin action "Update selected packages from PyPI".
CheckPypi(sel, idx) ==
    /\ pc = "idle"
    /\ LET r == check_pypi(store, selected(store, sel), idx, now)
       IN /\ store' = r.store
          /\ queried' = r.queried
          /\ raised' = r.raised
    /\ pc' = "exit"
    /\ lastOp' = "check_pypi"
    /\ lastIdx' = idx
    /\ UNCHANGED <<now, opts, reqs, pending, requested, packages, results, errors, listing>>

\* The admin change list with the "Update available" filter and column.
ChangeList(value) ==
    /\ pc = "idle"
    /\ LET qs == queryset(value, store)
       IN listing' = {<<qs[i].package_name, updateable(qs[i])>> : i \in 1..Len(qs)}
    /\ pc' = "exit"
    /\ lastOp' = "changelist"
    /\ UNCHANGED <<store, now, opts, reqs, pending, requested, packages, lastIdx, results, queried,
                   errors, raised>>

\* The admin change form, which renders available_updates.
ChangeForm(name, response) ==
    /\ pc = "idle"
    /\ Exists(store, name)
    /\ response.ok
    /\ listing' = available_updates(get(store, name)[1], response)
    /\ pc' = "exit"
    /\ lastOp' = "changeform"
    /\ UNCHANGED <<store, now, opts, reqs, pending, requested, packages, lastIdx, results, queried,
                   errors, raised>>

\* The command process exits, or the admin request has been answered: the
\* locals of the handler and what it returned are gone.
Return ==
    /\ pc = "exit"
    /\ pc' = "idle"
    /\ opts' = NoOptions
    /\ packages' = <<>>
    /\ lastOp' = "none"
    /\ lastIdx' = <<>>
    /\ results' = NoResults
    /\ queried' = <<>>
    /\ errors' = <<>>
    /\ raised' = FALSE
    /\ listing' = {}
    /\ requested' = <<>>
    /\ UNCHANGED <<store, now, reqs, pending>>

Next == \/ \E o \in Options : HandleStart(o)
        \/ Clean
        \/ \E m \in Manifests : Local(m)
        \/ \E idx \in [ToQuery(remote_packages(store, packages)) -> Responses] : Remote(idx)
        \/ \E sel \in SUBSET Names :
              \E idx \in [ToQuery(selected(store, sel)) -> Responses] : CheckPypi(sel, idx)
        \/ \E value \in {"1", "0", "-1", ""} : ChangeList(value)
        \/ \E name \in Names, response \in Responses : ChangeForm(name, response)
        \/ Return
        \/ Tick

Spec == Init /\ [][Next]_vars

\* ----------------------------------------- local() step by step, with an
\* independent "refresh_packages --clean" running at the same time
LocalOpen(requirements) ==
    /\ pc = "local"
    /\ reqs' = requirements
    /\ requested' = [i \in 1..Len(requirements) |-> lookup_name(requirements[i])]
    /\ pc' = "for"
    /\ UNCHANGED <<store, now, opts, pending, packages, lastOp, lastIdx, results, queried,
                   errors, raised, listing>>

\* Line 37: pv = create_package_version(r)
LocalCreate ==
    /\ pc = "for"
    /\ reqs # <<>>
    /\ LET c == create_package_version(store, Head(reqs))
       IN /\ store' = c.store
          /\ raised' = c.raised
          /\ IF c.raised THEN /\ pc' = "exit"
                              /\ UNCHANGED <<packages, pending>>
             ELSE IF c.pv # <<>> THEN /\ packages' = Append(packages, c.pv[1])
                                      /\ UNCHANGED <<pc, pending>>
             ELSE /\ pending' = <<Head(reqs)>>
                  /\ pc' = "get"
                  /\ UNCHANGED packages
    /\ reqs' = Tail(reqs)
    /\ UNCHANGED <<now, opts, requested, lastOp, lastIdx, results, queried, errors, listing>>

\* Lines 39-45: pv = PackageVersion.objects.get(package_name=name)
LocalGet ==
    /\ pc = "get"
    /\ LET r == local_lookup([store |-> store, packages |-> packages, errors |-> errors,
                              raised |-> FALSE], pending[1])
       IN /\ packages' = r.packages
          /\ errors' = r.errors
    /\ pending' = <<>>
    /\ pc' = "for"
    /\ UNCHANGED <<store, now, opts, reqs, requested, lastOp, lastIdx, results, queried, raised,
                   listing>>

\* Line 47: return packages
LocalReturn ==
    /\ pc = "for"
    /\ reqs = <<>>
    /\ pc' = Stage(opts, "local")
    /\ lastOp' = "local"
    /\ UNCHANGED <<store, now, opts, reqs, pending, requested, packages, lastIdx, results, queried,
                   errors, raised, listing>>

\* clean() of another invocation of the command.
OtherClean ==
    /\ store # <<>>
    /\ store' = clean(store)
    /\ UNCHANGED <<now, pc, opts, reqs, pending, requested, packages, lastOp, lastIdx, results,
                   queried, errors, raised, listing>>

NextConc == \/ \E o \in {x \in Options : ~x.remote} : HandleStart(o)
            \/ Clean
            \/ \E m \in Manifests : LocalOpen(m)
            \/ LocalCreate
            \/ LocalGet
            \/ LocalReturn
            \/ OtherClean
            \/ Return

SpecConc == Init /\ [][NextConc]_vars

TypeOK == /\ pc \in {"idle", "clean", "local", "for", "get", "remote", "exit"}
          /\ now \in 0..MaxClock
          /\ \A i \in 1..Len(store) : store[i].diff_status \in Statuses

\* ------------------------------------------------------------ properties
Range(q) == {q[i] : i \in 1..Len(q)}
RowOf(st, name) == get(st, name)[1]
NamesOf(rows) == [i \in 1..Len(rows) |-> rows[i].package_name]
Queryable(pkgs) == NamesOf(SelectSeq(pkgs, LAMBDA row : ~row.is_editable))
AfterRemote == lastOp = "remote" /\ pc = "exit"
UniqueNames(st) == \A i, j \in 1..Len(st) : st[i].package_name = st[j].package_name => i = j

\* C1: a remote() run in which some index queries fail still returns its
\* report; every non-editable record of the batch is queried, also those after
\* a failing one, the ones whose query succeeds are updated, and the stored
\* row of each failing record is exactly what it was before the run.
C1_RemoteSurvivesFailures ==
    [][(pc = "remote" /\ pc' = "exit") =>
         LET pkgs == remote_packages(store, packages)
         IN /\ results'.refreshed_at # NoTime
            /\ queried' = Queryable(pkgs)
            /\ \A n \in ToQuery(pkgs) :
                  IF lastIdx'[n].ok
                  THEN /\ RowOf(store', n).checked_pypi_at = now'
                       /\ RowOf(store', n).latest_version = latest_version(lastIdx'[n].versions)
                       /\ n \notin Range(errors')
                  ELSE /\ get(store', n) = get(store, n)
                       /\ n \in Range(errors')]_vars

\* C1 case: a record failed, a later one succeeded, and the failing record
\* keeps a diff_status other than unknown from an earlier run.
C1_Witness ==
    /\ AfterRemote
    /\ \E i, j \in 1..Len(queried) :
          /\ i < j
          /\ ~lastIdx[queried[i]].ok
          /\ lastIdx[queried[j]].ok
          /\ RowOf(store, queried[i]).diff_status # "unknown"

\* C2: a record with is_editable = true is never queried against the index
\* by remote() or check_pypi, and its latest_version and next_version stay
\* unset and its diff_status unknown.
C2_EditableNeverReconciled ==
    \A i \in 1..Len(store) :
        store[i].is_editable =>
            /\ store[i].latest_version = NoVersion
            /\ store[i].next_version = NoVersion
            /\ store[i].diff_status = "unknown"
            /\ store[i].checked_pypi_at = NoTime
            /\ store[i].package_name \notin Range(queried)

\* C2 case: remote() was handed a set holding an editable record next to a
\* record it did query.
C2_Witness ==
    /\ AfterRemote
    /\ queried # <<>>
    /\ \E i \in 1..Len(packages) : packages[i].is_editable

\* C3: local() over a manifest naming packages that already have a record
\* (from an earlier run or an earlier line) does not fail, keeps
\* package_name unique, leaves every existing row as it was, and returns for
\* each requirement the stored record of that name.
C3_LocalReusesExisting ==
    [][(pc = "local" /\ pc' # "local") =>
         /\ raised' = FALSE
         /\ errors' = <<>>
         /\ UniqueNames(store')
         /\ SubSeq(store', 1, Len(store)) = store
         /\ NamesOf(packages') = requested'
         /\ \A i \in 1..Len(packages') :
               /\ packages'[i] = RowOf(store', requested'[i])
               /\ Exists(store, requested'[i]) => packages'[i] = RowOf(store, requested'[i])]_vars

\* C3 case: local() returned the same record for two lines of the manifest,
\* and that record had been refreshed by an earlier run.
C3_Witness ==
    /\ lastOp = "local"
    /\ \E i, j \in 1..Len(packages) :
          /\ i < j
          /\ packages[i].package_name = packages[j].package_name
          /\ packages[i].checked_pypi_at # NoTime

\* The entries of the processed set that remote() reports under a status.
Listed(status) ==
    SelectSeq(queried, LAMBDA n : lastIdx[n].ok /\ RowOf(store, n).diff_status = status)

\* C4 as stated: the report lists every non-editable record of the
\* processed set exactly once, under the diff_status it has when the run ends,
\* and carries a refreshed_at timestamp.
C4_ReportListsEveryRecord ==
    AfterRemote =>
        /\ results.refreshed_at # NoTime
        /\ \A n \in ToQuery(remote_packages(store, packages)) :
              /\ Len(SelectSeq(results.groups[RowOf(store, n).diff_status],
                               LAMBDA x : x = n)) = 1
              /\ \A s \in Statuses \ {RowOf(store, n).diff_status} :
                    n \notin Range(results.groups[s])

\* C4: the report lists, in processing order, exactly the entries of the
\* processed set whose index query succeeded, each under the diff_status the
\* record has when the run ends; a record whose query failed is not listed;
\* the report always carries the refreshed_at timestamp of the run.
C4_ReportListsUpdated ==
    AfterRemote =>
        /\ results.refreshed_at = now
        /\ queried = Queryable(remote_packages(store, packages))
        /\ \A s \in Statuses : results.groups[s] = Listed(s)

\* C4 case: a run in which one query failed and another record was updated.
C4_Witness ==
    /\ AfterRemote
    /\ errors # <<>>
    /\ \E s \in Statuses \ {"unknown"} : results.groups[s] # <<>>

\* C5: a command run with --local and --remote refreshes exactly the
\* non-editable records local() returned.
C5_RemoteStaysInGivenSet ==
    (AfterRemote /\ opts.local) => Range(queried) = ToQuery(packages)

\* C6 as stated: no operation of the admin changes any stored field.
C6_AdminNeverWrites ==
    [][(pc = "idle" /\ lastOp' \in {"check_pypi", "changelist", "changeform"}) =>
         store' = store]_vars

\* C6: the change list (filter and columns) and the change form
\* (available_updates) change no stored field; the check_pypi action is a
\* writer, but only of the index-derived fields of selected non-editable
\* records, and it adds and removes no record.
C6_AdminWritesOnlyViaCheckPypi ==
    [][(pc = "idle" /\ lastOp' \in {"check_pypi", "changelist", "changeform"}) =>
         /\ lastOp' # "check_pypi" => store' = store
         /\ Len(store') = Len(store)
         /\ \A i \in 1..Len(store) :
               store'[i] # store[i] =>
                  /\ ~store[i].is_editable
                  /\ store[i].package_name \in Range(queried')
                  /\ store'[i].package_name = store[i].package_name
                  /\ store'[i].is_editable = store[i].is_editable
                  /\ store'[i].current_version = store[i].current_version]_vars

\* C6 case: check_pypi ran over a selection with an editable record and
\* updated another record.
C6_Witness ==
    /\ lastOp = "check_pypi"
    /\ queried # <<>>
    /\ \E i, j \in 1..Len(store) : store[i].is_editable /\ store[j].checked_pypi_at = now

\* C7: every stored record's diff_status is the classification of its
\* stored current_version and latest_version.
C7_DiffStatusNeverStale ==
    \A i \in 1..Len(store) :
        store[i].diff_status =
            classify(store[i].current_version, store[i].latest_version, store[i].is_editable)

\* C7 case: a refreshed record that is behind the index and one with no
\* current version.
C7_Witness ==
    \E i, j \in 1..Len(store) :
        /\ store[i].diff_status \in {"patch", "minor", "major"}
        /\ store[i].next_version # store[i].latest_version
        /\ store[j].current_version = NoVersion
        /\ store[j].latest_version # NoVersion

\* The records a repeated run is handed: the same ones, as stored now.
SameRecords == [i \in 1..Len(packages) |-> RowOf(store, packages[i].package_name)]
Untimed(st) == [i \in 1..Len(st) |-> [st[i] EXCEPT !.checked_pypi_at = NoTime]]

\* C8 as stated: a second remote() run with the same index data leaves every
\* record in the same state and reports the same groups.
C8_RemoteIdempotent ==
    AfterRemote =>
        \A t \in {now, now + 1} :
            LET again == remote(store, SameRecords, lastIdx, t)
            IN /\ again.store = store
               /\ again.results.groups = results.groups

\* C8: a second remote() run over the same records with the same index
\* data leaves every field of every record as the first run left it, except
\* checked_pypi_at of the records queried successfully, which takes the time
\* of the second run; the second report has the same groups.
C8_RemoteIdempotentButTimestamp ==
    AfterRemote =>
        \A t \in {now, now + 1} :
            LET again == remote(store, SameRecords, lastIdx, t)
            IN /\ Untimed(again.store) = Untimed(store)
               /\ \A n \in Range(queried) :
                     RowOf(again.store, n).checked_pypi_at =
                        IF lastIdx[n].ok THEN t ELSE RowOf(store, n).checked_pypi_at
               /\ again.results.groups = results.groups
               /\ again.queried = queried
               /\ again.errors = errors

\* C8 case: a run with a failure and with a record that moved from unknown
\* to another status.
C8_Witness ==
    /\ AfterRemote
    /\ \E n \in Range(queried) : ~lastIdx[n].ok
    /\ \E n \in Range(queried) : lastIdx[n].ok /\ RowOf(store, n).diff_status # "unknown"

\* C9: when the creation of a requirement's record failed on the duplicate
\* name and the record was deleted before local() looks it up, the lookup
\* step appends nothing to the list, creates no record, logs an error and
\* returns to the loop over the remaining requirements.
C9_DeletedRecordIsSkipped ==
    [][(pc = "get" /\ pc' # "get" /\ ~Exists(store, lookup_name(pending[1]))) =>
         /\ packages' = packages
         /\ store' = store
         /\ errors' = Append(errors, lookup_name(pending[1]))
         /\ raised' = FALSE
         /\ reqs' = reqs
         /\ pc' = "for"]_vars

\* C9 case: a requirement has been skipped and requirements remain.
C9_Witness ==
    /\ pc = "for"
    /\ errors # <<>>
    /\ reqs # <<>>
    /\ store = <<>>

\* C10: column and filter agree on every record: "Yes" selects exactly the
\* records the column shows as True, "No" as False, "Unknown" as None.
C10_FilterAgreesWithColumn ==
    \A i \in 1..Len(store) :
        /\ store[i] \in Range(queryset("1", store)) <=> updateable(store[i]) = "True"
        /\ store[i] \in Range(queryset("0", store)) <=> updateable(store[i]) = "False"
        /\ store[i] \in Range(queryset("-1", store)) <=> updateable(store[i]) = "None"
====
